---- MODULE Spec2Model ----
(***************************************************************************)
(* FlashPay client (src/src/client.ts): the canonical request-signing and  *)
(* signature-verification protocol.  Strings are sequences of UTF-16 code  *)
(* units (one-character TLA+ strings), JavaScript objects are sequences    *)
(* of key/value entries in property enumeration order, and the Web Crypto  *)
(* RSASSA-PKCS1-v1_5 primitive is an ideal signature scheme.               *)
(***************************************************************************)
EXTENDS Integers, Sequences, FiniteSets, Bags, TLC

(***************************************************************************)
(* Characters and strings                                                  *)
(***************************************************************************)
\* The characters U+0020..U+007E in code order (the grave accent, which a
\* TLA+ string cannot hold, is written <grave>).
PrintableAscii == <<" ", "!", "\"", "#", "$", "%", "&", "'", "(", ")", "*", "+", ",", "-", ".", "/", "0", "1", "2", "3", "4", "5", "6", "7", "8", "9", ":", ";", "<", "=", ">", "?", "@", "A", "B", "C", "D", "E", "F", "G", "H", "I", "J", "K", "L", "M", "N", "O", "P", "Q", "R", "S", "T", "U", "V", "W", "X", "Y", "Z", "[", "\\", "]", "^", "_", "<grave>", "a", "b", "c", "d", "e", "f", "g", "h", "i", "j", "k", "l", "m", "n", "o", "p", "q", "r", "s", "t", "u", "v", "w", "x", "y", "z", "{", "|", "}", "~">>
Base64Alphabet == <<"A", "B", "C", "D", "E", "F", "G", "H", "I", "J", "K", "L", "M", "N", "O", "P", "Q", "R", "S", "T", "U", "V", "W", "X", "Y", "Z", "a", "b", "c", "d", "e", "f", "g", "h", "i", "j", "k", "l", "m", "n", "o", "p", "q", "r", "s", "t", "u", "v", "w", "x", "y", "z", "0", "1", "2", "3", "4", "5", "6", "7", "8", "9", "+", "/">>

\* A lone high surrogate (U+D800) and the replacement character (U+FFFD),
\* each one UTF-16 code unit.
LoneSurrogate == "<D800>"
ReplacementChar == "<FFFD>"

Chars == {PrintableAscii[i] : i \in 1..Len(PrintableAscii)}
           \cup {"\n", "\r", "\t", LoneSurrogate, ReplacementChar}

\* The UTF-16 code unit of a character.
CodeUnit == [c \in Chars |->
               IF c = "\t" THEN 9
               ELSE IF c = "\n" THEN 10
               ELSE IF c = "\r" THEN 13
               ELSE IF c = LoneSurrogate THEN 55296
               ELSE IF c = ReplacementChar THEN 65533
               ELSE 31 + (CHOOSE i \in 1..Len(PrintableAscii) : PrintableAscii[i] = c)]

Digits == <<"0", "1", "2", "3", "4", "5", "6", "7", "8", "9">>

IsDigit(c) == \E i \in 1..10 : Digits[i] = c

DigitValue(c) == (CHOOSE i \in 1..10 : Digits[i] = c) - 1

\* JavaScript's Number-to-string conversion for integers: plain decimal text.
RECURSIVE NatToStr(_)
NatToStr(n) == IF n < 10 THEN <<Digits[n + 1]>>
               ELSE NatToStr(n \div 10) \o <<Digits[(n % 10) + 1]>>

NumberToString(n) == IF n < 0 THEN <<"-">> \o NatToStr(-n) ELSE NatToStr(n)

\* The default comparison of Array.prototype.sort: by UTF-16 code units.
RECURSIVE StrLess(_, _)
StrLess(a, b) ==
  IF b = <<>> THEN FALSE
  ELSE IF a = <<>> THEN TRUE
  ELSE IF CodeUnit[Head(a)] < CodeUnit[Head(b)] THEN TRUE
  ELSE IF CodeUnit[Head(a)] > CodeUnit[Head(b)] THEN FALSE
  ELSE StrLess(Tail(a), Tail(b))

\* The concatenation of a sequence of strings.
RECURSIVE Concat(_)
Concat(parts) ==
  IF parts = <<>> THEN <<>>
  ELSE IF Len(parts) = 1 THEN parts[1]
  ELSE LET h == Len(parts) \div 2
       IN  Concat(SubSeq(parts, 1, h)) \o Concat(SubSeq(parts, h + 1, Len(parts)))

\* Array.prototype.join
Join(parts, sep) ==
  Concat([i \in 1..Len(parts) |-> IF i = 1 THEN parts[i] ELSE sep \o parts[i]])

\* String literals of the source.
K_appKey == <<"a", "p", "p", "K", "e", "y">>
K_charset == <<"c", "h", "a", "r", "s", "e", "t">>
K_time == <<"t", "i", "m", "e">>
K_version == <<"v", "e", "r", "s", "i", "o", "n">>
K_data == <<"d", "a", "t", "a">>
K_sign == <<"s", "i", "g", "n">>
K_signType == <<"s", "i", "g", "n", "T", "y", "p", "e">>
K_outTradeNo == <<"o", "u", "t", "T", "r", "a", "d", "e", "N", "o">>
K_tradeNo == <<"t", "r", "a", "d", "e", "N", "o">>
K_tradeStatus == <<"t", "r", "a", "d", "e", "S", "t", "a", "t", "u", "s">>
K_paymentAmount == <<"p", "a", "y", "m", "e", "n", "t", "A", "m", "o", "u", "n", "t">>
K_cur == <<"c", "u", "r">>
K_subject == <<"s", "u", "b", "j", "e", "c", "t">>
K_returnUrl == <<"r", "e", "t", "u", "r", "n", "U", "r", "l">>
K_nonce == <<"n", "o", "n", "c", "e">>
K_10 == <<"1", "0">>
K_9 == <<"9">>
S_A1 == <<"A", "1">>
S_UTF8 == <<"U", "T", "F", "-", "8">>
S_Time1 == <<"2", "0", "2", "4", "-", "0", "1", "-", "1", "5", " ", "1", "0", ":", "0", "0", ":", "0", "0">>
S_Time2 == <<"2", "0", "2", "4", "-", "0", "1", "-", "1", "5", " ", "1", "0", ":", "3", "1", ":", "0", "0">>
S_V10 == <<"1", ".", "0">>
S_RSA2 == <<"R", "S", "A", "2">>
S_o1 == <<"o", "1">>
S_o2 == <<"o", "2">>
S_THB == <<"T", "H", "B">>
S_FP1 == <<"F", "P", "1">>
S_x == <<"x">>
S_undefined == <<"u", "n", "d", "e", "f", "i", "n", "e", "d">>
S_null == <<"n", "u", "l", "l">>
S_true == <<"t", "r", "u", "e">>
S_false == <<"f", "a", "l", "s", "e">>
S_ObjectObject == <<"[", "o", "b", "j", "e", "c", "t", " ", "O", "b", "j", "e", "c", "t", "]">>
S_BeginPrivate == <<"-", "-", "-", "-", "-", "B", "E", "G", "I", "N", " ", "P", "R", "I", "V", "A", "T", "E", " ", "K", "E", "Y", "-", "-", "-", "-", "-">>
S_EndPrivate == <<"-", "-", "-", "-", "-", "E", "N", "D", " ", "P", "R", "I", "V", "A", "T", "E", " ", "K", "E", "Y", "-", "-", "-", "-", "-">>
S_BeginPublic == <<"-", "-", "-", "-", "-", "B", "E", "G", "I", "N", " ", "P", "U", "B", "L", "I", "C", " ", "K", "E", "Y", "-", "-", "-", "-", "-">>
S_EndPublic == <<"-", "-", "-", "-", "-", "E", "N", "D", " ", "P", "U", "B", "L", "I", "C", " ", "K", "E", "Y", "-", "-", "-", "-", "-">>
S_BeginMarker == <<"-", "-", "-", "-", "-", "B", "E", "G", "I", "N">>
S_EndMarker == <<"-", "-", "-", "-", "-", "E", "N", "D">>
S_Dashes == <<"-", "-", "-", "-", "-">>

(***************************************************************************)
(* JavaScript values and objects                                           *)
(***************************************************************************)
\* A value: t is its type; s the code units of a string; n a number (or a
\* boolean as 0/1); o the entries of a nested object; k and m the key and the
\* message bytes of a base64 RSA signature string (t = "sig").
Val(t, s, n, o, k, m) == [t |-> t, s |-> s, n |-> n, o |-> o, k |-> k, m |-> m]

VStr(s) == Val("str", s, 0, <<>>, <<>>, <<>>)
VNum(n) == Val("num", <<>>, n, <<>>, <<>>, <<>>)
VBool(b) == Val("bool", <<>>, IF b THEN 1 ELSE 0, <<>>, <<>>, <<>>)
VNull == Val("null", <<>>, 0, <<>>, <<>>, <<>>)
VUndef == Val("undef", <<>>, 0, <<>>, <<>>, <<>>)
VObj(o) == Val("obj", <<>>, 0, o, <<>>, <<>>)
\* btoa of the signature crypto.subtle.sign makes with key k over bytes m.
VSig(k, m) == Val("sig", <<>>, 0, <<>>, k, m)

Entry(key, value) == [key |-> key, val |-> value]

\* An array index key ("0", "9", "10": canonical decimal text): such keys
\* come first, in numeric order, when an object's own keys are enumerated.
IsArrayIndex(key) ==
  /\ key # <<>>
  /\ Len(key) <= 9
  /\ \A i \in 1..Len(key) : IsDigit(key[i])
  /\ (Len(key) > 1 => key[1] # "0")

RECURSIVE StrToNat(_)
StrToNat(s) == IF s = <<>> THEN 0
               ELSE 10 * StrToNat(SubSeq(s, 1, Len(s) - 1)) + DigitValue(s[Len(s)])

ObjHas(obj, key) == \E i \in 1..Len(obj) : obj[i].key = key

\* obj[key]: undefined when the object has no such property.
ObjGet(obj, key) ==
  IF ObjHas(obj, key)
  THEN obj[CHOOSE i \in 1..Len(obj) : obj[i].key = key].val
  ELSE VUndef

\* Where a new property goes in the enumeration order (OrdinaryOwnPropertyKeys):
\* array indices ascending, then the other keys in insertion order.
InsertAt(obj, key) ==
  IF IsArrayIndex(key)
  THEN 1 + Cardinality({i \in 1..Len(obj) :
                          IsArrayIndex(obj[i].key) /\ StrToNat(obj[i].key) < StrToNat(key)})
  ELSE Len(obj) + 1

\* obj[key] = value
ObjSet(obj, key, value) ==
  IF ObjHas(obj, key)
  THEN [i \in 1..Len(obj) |-> IF obj[i].key = key THEN Entry(key, value) ELSE obj[i]]
  ELSE LET p == InsertAt(obj, key)
       IN  SubSeq(obj, 1, p - 1) \o <<Entry(key, value)>> \o SubSeq(obj, p, Len(obj))

\* The object without the property `key`.
ObjDelete(obj, key) == SelectSeq(obj, LAMBDA e : e.key # key)

\* An object literal / a sequence of assignments, in source order.
RECURSIVE ObjFrom(_)
ObjFrom(entries) ==
  IF entries = <<>> THEN <<>>
  ELSE ObjSet(ObjFrom(SubSeq(entries, 1, Len(entries) - 1)),
              entries[Len(entries)].key, entries[Len(entries)].val)

\* Object.keys(obj)
ObjectKeys(obj) == [i \in 1..Len(obj) |-> obj[i].key]

\* Array.prototype.sort() on distinct strings: ascending by code units.
RECURSIVE InsertSorted(_, _)
InsertSorted(sorted, key) ==
  IF sorted = <<>> THEN <<key>>
  ELSE IF StrLess(key, Head(sorted)) THEN <<key>> \o sorted
  ELSE <<Head(sorted)>> \o InsertSorted(Tail(sorted), key)

RECURSIVE SortKeys(_)
SortKeys(keys) ==
  IF keys = <<>> THEN <<>>
  ELSE InsertSorted(SortKeys(Tail(keys)), Head(keys))

\* JSON.stringify's quoting of a string: '"' and '\' escaped, control
\* characters and lone surrogates written as escapes.
JsonEscapeChar(c) ==
  IF c = "\"" THEN <<"\\", "\"">>
  ELSE IF c = "\\" THEN <<"\\", "\\">>
  ELSE IF c = "\n" THEN <<"\\", "n">>
  ELSE IF c = "\r" THEN <<"\\", "r">>
  ELSE IF c = "\t" THEN <<"\\", "t">>
  ELSE IF c = LoneSurrogate THEN <<"\\", "u", "d", "8", "0", "0">>
  ELSE <<c>>

JsonQuoteChars(s) == Concat([i \in 1..Len(s) |-> JsonEscapeChar(s[i])])

JsonQuote(s) == <<"\"">> \o JsonQuoteChars(s) \o <<"\"">>

\* Template-literal / String() coercion of a value that is no object.
ScalarToString(v) ==
  CASE v.t = "str" -> v.s
    [] v.t = "num" -> NumberToString(v.n)
    [] v.t = "bool" -> IF v.n = 1 THEN S_true ELSE S_false
    [] v.t = "null" -> S_null
    [] v.t = "undef" -> S_undefined
    [] v.t = "sig" -> <<"<base64 signature>">>
    [] OTHER -> S_ObjectObject

\* JSON.stringify of a scalar member value (undefined members are omitted
\* by the caller below).
JsonScalar(v) ==
  CASE v.t = "str" -> JsonQuote(v.s)
    [] v.t = "sig" -> JsonQuote(ScalarToString(v))
    [] v.t = "num" -> NumberToString(v.n)
    [] v.t = "bool" -> IF v.n = 1 THEN S_true ELSE S_false
    [] OTHER -> S_null

\* JSON.stringify(obj) of an object of scalars: compact, members in the
\* object's enumeration order, members whose value is undefined left out.
JsonMembers(obj) ==
  LET kept == SelectSeq(obj, LAMBDA e : e.val.t # "undef")
  IN  [i \in 1..Len(kept) |-> JsonQuote(kept[i].key) \o <<":">> \o JsonScalar(kept[i].val)]

JSONstringify(obj) == <<"{">> \o Join(JsonMembers(obj), <<",">>) \o <<"}">>

\* `${value}`
ToStr(v) == ScalarToString(v)

(***************************************************************************)
(* createDataForSignature (client.ts 169-194)                              *)
(***************************************************************************)
\* A truthiness test in place of the three comparisons: 0 and false go too.
IsKeptValue_Truthy(value) ==
  ~(value.t = "null" \/ value.t = "undef" \/ (value.t = "str" /\ value.s = <<>>)
      \/ (value.t \in {"num", "bool"} /\ value.n = 0))

\* value !== null && value !== undefined && value !== ''
IsKeptValue(value) ==
  ~(value.t = "null" \/ value.t = "undef" \/ (value.t = "str" /\ value.s = <<>>))

\* The loop of lines 180-185 over sortedKeys, building cleanedData.
RECURSIVE CleanLoop(_, _, _)
CleanLoop(data, sortedKeys, cleanedData) ==
  IF sortedKeys = <<>> THEN cleanedData
  ELSE LET key == Head(sortedKeys)
           value == ObjGet(data, key)
       IN  CleanLoop(data, Tail(sortedKeys),
                     IF IsKeptValue(value) THEN ObjSet(cleanedData, key, value)
                     ELSE cleanedData)

\* The loop run over Object.keys(data) as they come, the .sort() forgotten.
CleanedData_Unsorted(data) == CleanLoop(data, ObjectKeys(data), <<>>)

CleanedData(data) == CleanLoop(data, SortKeys(ObjectKeys(data)), <<>>)

\* payload.data && typeof payload.data === 'object'
IsDataObject(payload) == ObjGet(payload, K_data).t = "obj"

\* clonedPayload after lines 172-187.
ClonedPayload(payload) ==
  IF IsDataObject(payload)
  THEN ObjSet(payload, K_data, VStr(JSONstringify(CleanedData(ObjGet(payload, K_data).o))))
  ELSE payload

\* The pairs joined in the object's own key order, the .sort() forgotten.
JoinPairs_Unsorted(clonedPayload) ==
  LET keys == ObjectKeys(clonedPayload)
  IN  Join([i \in 1..Len(keys) |-> keys[i] \o <<"=">> \o ToStr(ObjGet(clonedPayload, keys[i]))],
           <<"&">>)

\* Lines 190-193.
JoinPairs(clonedPayload) ==
  LET keys == SortKeys(ObjectKeys(clonedPayload))
  IN  Join([i \in 1..Len(keys) |-> keys[i] \o <<"=">> \o ToStr(ObjGet(clonedPayload, keys[i]))],
           <<"&">>)

createDataForSignature(payload) == JoinPairs(ClonedPayload(payload))

(***************************************************************************)
(* Key loading (client.ts 6-45, 145-162)                                   *)
(***************************************************************************)
\* pattern occurs in s at position i
MatchAt(s, i, pattern) ==
  /\ i >= 1
  /\ i + Len(pattern) - 1 <= Len(s)
  /\ SubSeq(s, i, i + Len(pattern) - 1) = pattern

\* String.prototype.includes
Includes(s, pattern) == \E i \in 1..Len(s) : MatchAt(s, i, pattern)

\* The characters the regular expression's `.` does not match.
IsLineTerminator(c) == c \in {"\n", "\r"}

\* The characters /\s/ matches, which are also atob's ASCII whitespace.
IsWhitespace(c) == c \in {" ", "\t", "\n", "\r"}

\* The ends j of the matches of /<marker>.*-----/ that start at i: `.*` spans
\* characters of one line, and the five dashes begin at j.
MarkerMatchEnds(s, i, marker) ==
  IF ~MatchAt(s, i, marker) THEN {}
  ELSE {j \in (i + Len(marker))..Len(s) :
          /\ MatchAt(s, j, S_Dashes)
          /\ \A p \in (i + Len(marker))..(j - 1) : ~IsLineTerminator(s[p])}

Max(S) == CHOOSE a \in S : \A b \in S : b <= a

Min(S) == CHOOSE a \in S : \A b \in S : a <= b

\* s.replace(/<marker>.*-----/, ''): the leftmost match, `.*` greedy.
ReplaceMarker(s, marker) ==
  LET starts == {i \in 1..Len(s) : MarkerMatchEnds(s, i, marker) # {}}
  IN  IF starts = {} THEN s
      ELSE LET i == Min(starts)
               j == Max(MarkerMatchEnds(s, i, marker))
           IN  SubSeq(s, 1, i - 1) \o SubSeq(s, j + Len(S_Dashes), Len(s))

\* s.replace(/\s/g, '')
StripWhitespace(s) == SelectSeq(s, LAMBDA c : ~IsWhitespace(c))

\* The value of a base64 digit.
Base64Value == [c \in {Base64Alphabet[i] : i \in 1..Len(Base64Alphabet)} |->
                  (CHOOSE i \in 1..Len(Base64Alphabet) : Base64Alphabet[i] = c) - 1]

IsBase64Digit(c) == c \in DOMAIN Base64Value

\* The bytes of a run of base64 digits: 24 bits to three bytes; a last group
\* of two or three digits gives one or two bytes, its spare bits discarded.
RECURSIVE DecodeDigits(_)
DecodeDigits(ds) ==
  IF Len(ds) >= 4
  THEN LET n == Base64Value[ds[1]] * 262144 + Base64Value[ds[2]] * 4096
                  + Base64Value[ds[3]] * 64 + Base64Value[ds[4]]
       IN  <<n \div 65536, (n \div 256) % 256, n % 256>>
             \o DecodeDigits(SubSeq(ds, 5, Len(ds)))
  ELSE IF Len(ds) = 3
  THEN LET n == (Base64Value[ds[1]] * 4096 + Base64Value[ds[2]] * 64
                   + Base64Value[ds[3]]) \div 4
       IN  <<n \div 256, n % 256>>
  ELSE IF Len(ds) = 2
  THEN <<(Base64Value[ds[1]] * 64 + Base64Value[ds[2]]) \div 16>>
  ELSE <<>>

\* The outcome of a call: bytes (Ok), a value (OkVal) or a boolean (OkBool)
\* returned, or an error thrown.
Ok(v) == [ok |-> TRUE, bytes |-> v, err |-> "none"]
Thrown(e) == [ok |-> FALSE, bytes |-> <<>>, err |-> e]
OkVal(v) == [ok |-> TRUE, val |-> v, err |-> "none"]
ThrownVal(e) == [ok |-> FALSE, val |-> VUndef, err |-> e]
OkBool(b) == [ok |-> TRUE, val |-> b, err |-> "none"]
ThrownBool(e) == [ok |-> FALSE, val |-> FALSE, err |-> e]

\* Up to two trailing '=' of a string whose length is a multiple of four.
StripPadding(s) ==
  IF Len(s) % 4 # 0 \/ s = <<>> THEN s
  ELSE IF s[Len(s)] # "=" THEN s
  ELSE IF s[Len(s) - 1] = "=" THEN SubSeq(s, 1, Len(s) - 2)
  ELSE SubSeq(s, 1, Len(s) - 1)

\* atob (forgiving-base64 decode): the bytes, or InvalidCharacterError.
atob(s) ==
  LET ds == StripPadding(StripWhitespace(s))
  IN  IF Len(ds) % 4 = 1 \/ \E i \in 1..Len(ds) : ~IsBase64Digit(ds[i])
      THEN Thrown("InvalidCharacterError")
      ELSE Ok(DecodeDigits(ds))

\* The base64 text pemToArrayBuffer hands to atob (lines 7-10).
PemBase64(pem) ==
  StripWhitespace(ReplaceMarker(ReplaceMarker(pem, S_BeginMarker), S_EndMarker))

\* pemToArrayBuffer (lines 6-17)
pemToArrayBuffer(pem) == atob(PemBase64(pem))

\* getPrivateKeyPem (lines 145-151)
getPrivateKeyPem(key) ==
  IF Includes(key, S_BeginMarker) THEN key
  ELSE S_BeginPrivate \o <<"\n">> \o key \o <<"\n">> \o S_EndPrivate

\* getPublicKeyPem (lines 156-162)
getPublicKeyPem(key) ==
  IF Includes(key, S_BeginMarker) THEN key
  ELSE S_BeginPublic \o <<"\n">> \o key \o <<"\n">> \o S_EndPublic

(***************************************************************************)
(* Web Crypto: RSASSA-PKCS1-v1_5 with SHA-256 as an ideal signature scheme *)
(***************************************************************************)
\* The key pairs that exist: the PKCS#8 bytes of each private key and the
\* SPKI bytes of its public key.  Any other bytes are no key.
KeyPairs ==
  { [priv |-> <<65, 66, 67, 68, 69, 70>>, pub |-> <<97, 98, 99>>],      \* the merchant's
    [priv |-> <<71, 72, 73>>, pub |-> <<103, 104, 105, 106, 107, 108>>] }  \* the gateway's

MerchantPrivateKeyRaw == <<"Q", "U", "J", "D", "R", "E", "V", "G">>
MerchantPublicKeyRaw == <<"Y", "W", "J", "j">>
FlashPayPrivateKeyRaw == <<"R", "0", "h", "J">>
FlashPayPublicKeyRaw == <<"Z", "2", "h", "p", "a", "m", "t", "s">>

PublicKeyOf(priv) == (CHOOSE p \in KeyPairs : p.priv = priv).pub

\* crypto.subtle.importKey('pkcs8', keyData, ...): the key handle, or DataError.
importKeyPkcs8(keyData) ==
  IF keyData \in {p.priv : p \in KeyPairs} THEN Ok(keyData) ELSE Thrown("DataError")

\* crypto.subtle.importKey('spki', keyData, ...)
importKeySpki(keyData) ==
  IF keyData \in {p.pub : p \in KeyPairs} THEN Ok(keyData) ELSE Thrown("DataError")

\* importPrivateKey (lines 22-31)
importPrivateKey(pem) ==
  LET keyData == pemToArrayBuffer(pem)
  IN  IF keyData.ok THEN importKeyPkcs8(keyData.bytes) ELSE keyData

\* importPublicKey (lines 36-45)
importPublicKey(pem) ==
  LET keyData == pemToArrayBuffer(pem)
  IN  IF keyData.ok THEN importKeySpki(keyData.bytes) ELSE keyData

\* TextEncoder.encode: UTF-8; a lone surrogate is encoded as U+FFFD.
TextEncode(s) ==
  Concat([i \in 1..Len(s) |->
            IF s[i] \in {LoneSurrogate, ReplacementChar} THEN <<239, 191, 189>>
            ELSE <<CodeUnit[s[i]]>>])

\* btoa(String.fromCharCode(...signature)) of crypto.subtle.sign's result.
cryptoSign(privateKey, data) == VSig(privateKey, data)

\* crypto.subtle.verify on the bytes atob gave for `signature`: true exactly
\* for a signature made by the matching private key over the same bytes.
cryptoVerify(publicKey, signature, data) ==
  /\ signature.t = "sig"
  /\ PublicKeyOf(signature.k) = publicKey
  /\ signature.m = data

\* atob's error caught and an empty byte string handed on in its place.
atobSignature_Swallowed(signature) ==
  IF signature.t = "sig" THEN Ok(<<>>)
  ELSE IF atob(ToStr(signature)).ok THEN atob(ToStr(signature)) ELSE Ok(<<>>)

\* atob(signature): a base64 signature string decodes to its signature
\* bytes; any other value is converted to a string and decoded as such.
atobSignature(signature) ==
  IF signature.t = "sig" THEN Ok(<<>>) ELSE atob(ToStr(signature))

(***************************************************************************)
(* generateSignature and verifySignature (client.ts 199-221)               *)
(***************************************************************************)
\* Lines 201-205, given the string to sign.
SignCanonical(stringToSign, merchantPrivateKey) ==
  LET privateKey == importPrivateKey(getPrivateKeyPem(merchantPrivateKey))
  IN  IF ~privateKey.ok THEN ThrownVal(privateKey.err)
      ELSE OkVal(cryptoSign(privateKey.bytes, TextEncode(stringToSign)))

generateSignature(payload, merchantPrivateKey) ==
  SignCanonical(createDataForSignature(payload), merchantPrivateKey)

\* The check made on the key alone, the data bytes not compared.
VerifyCanonical_KeyOnly(stringToVerify, signature, flashPayPublicKey) ==
  LET publicKey == importPublicKey(getPublicKeyPem(flashPayPublicKey))
  IN  IF ~publicKey.ok THEN ThrownBool(publicKey.err)
      ELSE IF ~atobSignature(signature).ok THEN ThrownBool(atobSignature(signature).err)
      ELSE OkBool(signature.t = "sig" /\ PublicKeyOf(signature.k) = publicKey.bytes)

\* Lines 216-220, given the string to verify.
VerifyCanonical(stringToVerify, signature, flashPayPublicKey) ==
  LET publicKey == importPublicKey(getPublicKeyPem(flashPayPublicKey))
  IN  IF ~publicKey.ok THEN ThrownBool(publicKey.err)
      ELSE IF ~atobSignature(signature).ok THEN ThrownBool(atobSignature(signature).err)
      ELSE OkBool(cryptoVerify(publicKey.bytes, signature, TextEncode(stringToVerify)))

\* The verifying side joining the payload as it is, data not cleaned.
verifySignature_Uncleaned(payload, signature, flashPayPublicKey) ==
  VerifyCanonical(JoinPairs(payload), signature, flashPayPublicKey)

verifySignature(payload, signature, flashPayPublicKey) ==
  VerifyCanonical(createDataForSignature(payload), signature, flashPayPublicKey)

(***************************************************************************)
(* State                                                                   *)
(***************************************************************************)
VARIABLES
  cPayload,   \* canonicalizer: the payload P handed to createDataForSignature
  cOther,     \* canonicalizer: a second payload Q derived from P
  cRel,       \* how Q was derived from P
  cStr,       \* createDataForSignature(P), once computed
  cOtherStr,  \* createDataForSignature(Q), once computed
  cPhase      \* "input" | "done"

VARIABLES
  kRaw,       \* key loader: the raw base64 key
  kKind,      \* "private" | "public"
  kKey,       \* the key string of the configuration: kRaw, or an enveloped form of it
  kPem,       \* getPrivateKeyPem() / getPublicKeyPem()
  kBase64,    \* the text pemToArrayBuffer hands to atob
  kKeyData,   \* pemToArrayBuffer's result
  kHandle,    \* importKey's result
  kPhase      \* "config" | "pem" | "base64" | "decoded" | "imported"

VARIABLES
  sConfig,    \* sign/verify: the two key strings of the configuration
  sPayload,   \* the payload P
  sStr,       \* createDataForSignature(P)
  sSig,       \* generateSignature(P)
  sOtherStr,  \* sStr with one character replaced
  sVerified,  \* the verification's outcome
  sPhase      \* "input" | "signed" | "mutated" | "verified" | "verifiedOther"

VARIABLES
  config,       \* the client: this.config
  ops,          \* the calls made on the client, a bag: each with its position and its locals
  sent,         \* the request bodies handed to fetch
  privImports,  \* how many times importPrivateKey was called
  pubImports    \* how many times importPublicKey was called

clientVars == <<config, ops, sent, privImports, pubImports>>
canonVars == <<cPayload, cOther, cRel, cStr, cOtherStr, cPhase>>
keyVars == <<kRaw, kKind, kKey, kPem, kBase64, kKeyData, kHandle, kPhase>>
signVars == <<sConfig, sPayload, sStr, sSig, sOtherStr, sVerified, sPhase>>

vars == <<canonVars, keyVars, signVars, clientVars>>

\* A string variable that holds no result yet.
Unset == <<"<unset>">>

(***************************************************************************)
(* Bounds                                                                  *)
(***************************************************************************)
\* The most entries a data object of the canonicalizer's inputs holds.
MaxDataKeys == 3

\* The most calls (requests and notification handlings) made on the client.
MaxOps == 2

(***************************************************************************)
(* The canonicalizer applied to bounded payloads                           *)
(***************************************************************************)
\* The data keys the inputs draw from, and the values each may carry.
DataKeyPool == <<K_outTradeNo, K_paymentAmount, K_cur, K_subject, K_10, K_9>>

DataValues(key) ==
  CASE key = K_outTradeNo -> {VStr(S_o1), VNull}
    [] key = K_paymentAmount -> {VNum(100), VNum(0)}
    [] key = K_cur -> {VStr(S_THB), VStr(<<>>)}
    [] key = K_subject -> {VStr(S_x), VUndef}
    [] key = K_10 -> {VBool(FALSE)}
    [] OTHER -> {VStr(S_x), VStr(<<>>)}

\* The entry lists over DataKeyPool[i..] of at most `room` entries, in pool order.
RECURSIVE DataEntryLists(_, _)
DataEntryLists(i, room) ==
  IF i > Len(DataKeyPool) THEN {<<>>}
  ELSE DataEntryLists(i + 1, room)
         \cup (IF room = 0 THEN {}
               ELSE {<<Entry(DataKeyPool[i], v)>> \o rest :
                       v \in DataValues(DataKeyPool[i]),
                       rest \in DataEntryLists(i + 1, room - 1)})

DataObjects == {ObjFrom(entries) : entries \in DataEntryLists(1, MaxDataKeys)}

\* The envelope fields every payload carries (makeRequest, lines 230-235).
Envelope(appKey, time) ==
  ObjFrom(<<Entry(K_appKey, VStr(appKey)), Entry(K_charset, VStr(S_UTF8)),
            Entry(K_time, VStr(time)), Entry(K_version, VStr(S_V10))>>)

CanonPayloads ==
  {Envelope(S_A1, S_Time1)}
    \cup {ObjSet(Envelope(S_A1, S_Time1), K_data, VObj(d)) : d \in DataObjects}

\* The same entries, inserted with entries i and i+1 exchanged.
SwapEntries(obj, i) ==
  ObjFrom([j \in 1..Len(obj) |->
             IF j = i THEN obj[i + 1] ELSE IF j = i + 1 THEN obj[i] ELSE obj[j]])

\* The canonicalizer's variables while another part is exercised.
CanonIdle ==
  /\ cPayload = <<>>
  /\ cOther = <<>>
  /\ cRel = "same"
  /\ cStr = Unset
  /\ cOtherStr = Unset
  /\ cPhase = "idle"

CanonStart ==
  /\ cPayload \in CanonPayloads
  /\ cOther = cPayload
  /\ cRel = "same"
  /\ cStr = Unset
  /\ cOtherStr = Unset
  /\ cPhase = "input"

\* The same entries, inserted in the opposite order.
ReverseEntries(obj) == ObjFrom([j \in 1..Len(obj) |-> obj[Len(obj) + 1 - j]])

\* Q's top-level entries are inserted in another order.
CanonReorderTop ==
  /\ cPhase = "input"
  /\ cRel \in {"same", "reorderedTop"}
  /\ \E i \in 1..(Len(cOther) - 1) : cOther' = SwapEntries(cOther, i)
  /\ cRel' = "reorderedTop"
  /\ UNCHANGED <<cPayload, cStr, cOtherStr, cPhase, keyVars, signVars, clientVars>>

\* Q's data entries are inserted in another order.
CanonReorderData ==
  /\ cPhase = "input"
  /\ cRel \in {"same", "reorderedData", "reorderedBoth"}
  /\ IsDataObject(cOther)
  /\ \E i \in 1..(Len(ObjGet(cOther, K_data).o) - 1) :
       cOther' = ObjSet(cOther, K_data, VObj(SwapEntries(ObjGet(cOther, K_data).o, i)))
  /\ cRel' = IF cRel = "same" THEN "reorderedData" ELSE cRel
  /\ UNCHANGED <<cPayload, cStr, cOtherStr, cPhase, keyVars, signVars, clientVars>>

\* Q's entries are inserted in the opposite order at both levels.
CanonReorderBoth ==
  /\ cPhase = "input"
  /\ cRel = "same"
  /\ IsDataObject(cOther)
  /\ cOther' = ReverseEntries(ObjSet(cOther, K_data,
                                     VObj(ReverseEntries(ObjGet(cOther, K_data).o))))
  /\ cRel' = "reorderedBoth"
  /\ UNCHANGED <<cPayload, cStr, cOtherStr, cPhase, keyVars, signVars, clientVars>>

\* The values a data entry may hold that count as empty: null, undefined, ''.
EmptyValues == {VNull, VUndef, VStr(<<>>)}

\* Q is P without one data entry whose value is null, undefined or ''.
CanonDropEmpty ==
  /\ cPhase = "input"
  /\ cRel = "same"
  /\ IsDataObject(cPayload)
  /\ \E i \in 1..Len(ObjGet(cPayload, K_data).o) :
       LET data == ObjGet(cPayload, K_data).o
       IN  /\ data[i].val \in EmptyValues
           /\ cOther' = ObjSet(cPayload, K_data, VObj(ObjDelete(data, data[i].key)))
  /\ cRel' = "droppedEmpty"
  /\ UNCHANGED <<cPayload, cStr, cOtherStr, cPhase, keyVars, signVars, clientVars>>

\* Q is P without one data entry whose value is of any other kind.
CanonDropKept ==
  /\ cPhase = "input"
  /\ cRel = "same"
  /\ IsDataObject(cPayload)
  /\ \E i \in 1..Len(ObjGet(cPayload, K_data).o) :
       LET data == ObjGet(cPayload, K_data).o
       IN  /\ data[i].val \notin EmptyValues
           /\ cOther' = ObjSet(cPayload, K_data, VObj(ObjDelete(data, data[i].key)))
  /\ cRel' = "droppedKept"
  /\ UNCHANGED <<cPayload, cStr, cOtherStr, cPhase, keyVars, signVars, clientVars>>

\* createDataForSignature is applied to P and to Q.
CanonApply ==
  /\ cPhase = "input"
  /\ cStr' = createDataForSignature(cPayload)
  /\ cOtherStr' = createDataForSignature(cOther)
  /\ cPhase' = "done"
  /\ UNCHANGED <<cPayload, cOther, cRel, keyVars, signVars, clientVars>>

CanonNext ==
  \/ CanonReorderTop
  \/ CanonReorderData
  \/ CanonReorderBoth
  \/ CanonDropEmpty
  \/ CanonDropKept
  \/ CanonApply

(***************************************************************************)
(* Key loading applied to the forms a key may be configured in              *)
(***************************************************************************)
BeginLine(kind) == IF kind = "private" THEN S_BeginPrivate ELSE S_BeginPublic
EndLine(kind) == IF kind = "private" THEN S_EndPrivate ELSE S_EndPublic

RawKeys(kind) ==
  IF kind = "private" THEN {MerchantPrivateKeyRaw, FlashPayPrivateKeyRaw}
  ELSE {MerchantPublicKeyRaw, FlashPayPublicKeyRaw}

\* The raw key cut into lines of four characters joined by `br`.
RECURSIVE Wrapped(_, _)
Wrapped(raw, br) ==
  IF Len(raw) <= 4 THEN raw
  ELSE SubSeq(raw, 1, 4) \o br \o Wrapped(SubSeq(raw, 5, Len(raw)), br)

\* Enveloped forms of a raw key: the markers and the body separated by `br`.
Enveloped(raw, kind, br) == BeginLine(kind) \o br \o raw \o br \o EndLine(kind)

LineBreaks == {<<"\n">>, <<"\r", "\n">>, <<" ">>, <<>>}

\* The forms in which the key `raw` may stand in the configuration.
KeyForms(raw, kind) ==
  {raw, Wrapped(raw, <<"\n">>)}
    \cup {Enveloped(raw, kind, br) : br \in LineBreaks}
    \cup {Enveloped(Wrapped(raw, br), kind, br) \o br : br \in LineBreaks}

KeyIdle ==
  /\ kRaw = <<>>
  /\ kKind = "private"
  /\ kKey = <<>>
  /\ kPem = Unset
  /\ kBase64 = Unset
  /\ kKeyData = Thrown("none")
  /\ kHandle = Thrown("none")
  /\ kPhase = "idle"

KeyStart ==
  /\ kKind \in {"private", "public"}
  /\ kRaw \in RawKeys(kKind)
  /\ kKey \in KeyForms(kRaw, kKind)
  /\ kPem = Unset
  /\ kBase64 = Unset
  /\ kKeyData = Thrown("none")
  /\ kHandle = Thrown("none")
  /\ kPhase = "config"

\* getPrivateKeyPem() / getPublicKeyPem()
KeyGetPem ==
  /\ kPhase = "config"
  /\ kPem' = IF kKind = "private" THEN getPrivateKeyPem(kKey) ELSE getPublicKeyPem(kKey)
  /\ kPhase' = "pem"
  /\ UNCHANGED <<kRaw, kKind, kKey, kBase64, kKeyData, kHandle, canonVars, signVars, clientVars>>

\* pemToArrayBuffer, lines 7-10
KeyStripEnvelope ==
  /\ kPhase = "pem"
  /\ kBase64' = PemBase64(kPem)
  /\ kPhase' = "base64"
  /\ UNCHANGED <<kRaw, kKind, kKey, kPem, kKeyData, kHandle, canonVars, signVars, clientVars>>

\* pemToArrayBuffer, lines 11-16
KeyDecode ==
  /\ kPhase = "base64"
  /\ kKeyData' = atob(kBase64)
  /\ kPhase' = "decoded"
  /\ UNCHANGED <<kRaw, kKind, kKey, kPem, kBase64, kHandle, canonVars, signVars, clientVars>>

\* crypto.subtle.importKey
KeyImport ==
  /\ kPhase = "decoded"
  /\ kHandle' = IF ~kKeyData.ok THEN kKeyData
                ELSE IF kKind = "private" THEN importKeyPkcs8(kKeyData.bytes)
                ELSE importKeySpki(kKeyData.bytes)
  /\ kPhase' = "imported"
  /\ UNCHANGED <<kRaw, kKind, kKey, kPem, kBase64, kKeyData, canonVars, signVars, clientVars>>

KeyNext ==
  \/ KeyGetPem
  \/ KeyStripEnvelope
  \/ KeyDecode
  \/ KeyImport

(***************************************************************************)
(* Signing and verifying applied to bounded payloads                       *)
(***************************************************************************)
SignIdle ==
  /\ sConfig = [merchantPrivateKey |-> <<>>, flashPayPublicKey |-> <<>>]
  /\ sPayload = <<>>
  /\ sStr = Unset
  /\ sSig = ThrownVal("none")
  /\ sOtherStr = Unset
  /\ sVerified = ThrownBool("none")
  /\ sPhase = "idle"

\* A signing key with the public key of the same pair or of another pair, raw
\* or enveloped.
SignConfigs ==
  {[merchantPrivateKey |-> priv, flashPayPublicKey |-> pub] :
     priv \in {MerchantPrivateKeyRaw, Enveloped(MerchantPrivateKeyRaw, "private", <<"\n">>)},
     pub \in {MerchantPublicKeyRaw, Enveloped(MerchantPublicKeyRaw, "public", <<"\n">>),
              FlashPayPublicKeyRaw}}

SignPayloads ==
  { Envelope(S_A1, S_Time1),
    Envelope(<<"A", LoneSurrogate>>, S_Time1),
    ObjSet(Envelope(S_A1, S_Time1), K_data,
           VObj(ObjFrom(<<Entry(K_outTradeNo, VStr(S_o1)), Entry(K_paymentAmount, VNum(100)),
                          Entry(K_cur, VStr(S_THB))>>))),
    ObjSet(Envelope(<<"A", ReplacementChar>>, S_Time2), K_data,
           VObj(ObjFrom(<<Entry(K_subject, VStr(<<>>)), Entry(K_tradeNo, VNull),
                          Entry(K_paymentAmount, VNum(0))>>))) }

\* The characters a character of the canonical string may be replaced by.
MutationChars == {" ", "&", "0", LoneSurrogate, ReplacementChar}

SignStart ==
  /\ sConfig \in SignConfigs
  /\ sPayload \in SignPayloads
  /\ sStr = Unset
  /\ sSig = ThrownVal("none")
  /\ sOtherStr = Unset
  /\ sVerified = ThrownBool("none")
  /\ sPhase = "input"

\* generateSignature(P)
SignGenerate ==
  /\ sPhase = "input"
  /\ sStr' = createDataForSignature(sPayload)
  /\ sSig' = generateSignature(sPayload, sConfig.merchantPrivateKey)
  /\ sPhase' = "signed"
  /\ UNCHANGED <<sConfig, sPayload, sOtherStr, sVerified, canonVars, keyVars, clientVars>>

\* verifySignature(P, generateSignature(P))
SignVerifyPayload ==
  /\ sPhase = "signed"
  /\ sSig.ok
  /\ sVerified' = verifySignature(sPayload, sSig.val, sConfig.flashPayPublicKey)
  /\ sPhase' = "verified"
  /\ UNCHANGED <<sConfig, sPayload, sStr, sSig, sOtherStr, canonVars, keyVars, clientVars>>

\* One character of the canonical string is replaced by another.
SignMutate ==
  /\ sPhase = "signed"
  /\ sSig.ok
  /\ \E i \in 1..Len(sStr), c \in MutationChars :
       /\ c # sStr[i]
       /\ sOtherStr' = [sStr EXCEPT ![i] = c]
  /\ sPhase' = "mutated"
  /\ UNCHANGED <<sConfig, sPayload, sStr, sSig, sVerified, canonVars, keyVars, clientVars>>

\* The signature over the canonical string is verified against the other string.
SignVerifyOther ==
  /\ sPhase = "mutated"
  /\ sVerified' = VerifyCanonical(sOtherStr, sSig.val, sConfig.flashPayPublicKey)
  /\ sPhase' = "verifiedOther"
  /\ UNCHANGED <<sConfig, sPayload, sStr, sSig, sOtherStr, canonVars, keyVars, clientVars>>

SignNext ==
  \/ SignGenerate
  \/ SignVerifyPayload
  \/ SignMutate
  \/ SignVerifyOther


(***************************************************************************)
(* The client (client.ts 135-140, 226-265, 411-432)                        *)
(***************************************************************************)
\* The configurations a client is constructed with: raw keys, enveloped
\* keys, and key strings that are no keys.
ClientConfigs ==
  { [appKey |-> S_A1, merchantPrivateKey |-> MerchantPrivateKeyRaw,
     flashPayPublicKey |-> FlashPayPublicKeyRaw],
    [appKey |-> S_A1,
     merchantPrivateKey |-> Enveloped(MerchantPrivateKeyRaw, "private", <<"\n">>),
     flashPayPublicKey |-> Enveloped(FlashPayPublicKeyRaw, "public", <<"\n">>)],
    [appKey |-> S_A1, merchantPrivateKey |-> <<"Q", "U", "J", "D">>,
     flashPayPublicKey |-> <<"!", "!">>] }

\* The data objects the public methods hand to makeRequest: none, a payment,
\* and a payment with an empty subject, no returnUrl and a zero amount.
RequestDatas ==
  { VUndef,
    VObj(ObjFrom(<<Entry(K_outTradeNo, VStr(S_o1)), Entry(K_paymentAmount, VNum(100)),
                   Entry(K_cur, VStr(S_THB))>>)),
    VObj(ObjFrom(<<Entry(K_outTradeNo, VStr(S_o2)), Entry(K_paymentAmount, VNum(0)),
                   Entry(K_subject, VStr(<<>>)), Entry(K_returnUrl, VUndef)>>)) }

\* The data of a notification with the given trade status.
NotificationData(tradeStatus) ==
  VObj(ObjFrom(<<Entry(K_outTradeNo, VStr(S_o1)), Entry(K_tradeNo, VStr(S_FP1)),
                 Entry(K_tradeStatus, VNum(tradeStatus)), Entry(K_paymentAmount, VNum(100)),
                 Entry(K_cur, VStr(S_THB))>>))

\* The private keys of the gateway and of somebody else.
FlashPayPrivateKey == importPrivateKey(getPrivateKeyPem(FlashPayPrivateKeyRaw)).bytes
OtherPrivateKey == importPrivateKey(getPrivateKeyPem(MerchantPrivateKeyRaw)).bytes

\* A notification's fields other than sign and signType.
SignedFields(notification) == ObjDelete(ObjDelete(notification, K_sign), K_signType)

\* The notification `fields` as the gateway signs it: over all its fields.
Signed(fields, privateKey) ==
  ObjSet(ObjSet(fields, K_sign,
                cryptoSign(privateKey, TextEncode(createDataForSignature(fields)))),
         K_signType, VStr(S_RSA2))

\* The notification `fields` carrying the signature made for `others`.
SignedAs(fields, others, privateKey) ==
  ObjSet(fields, K_sign, ObjGet(Signed(others, privateKey), K_sign))

WithData(tradeStatus) == ObjSet(Envelope(S_A1, S_Time2), K_data, NotificationData(tradeStatus))

\* The notifications handed to handleNotification: genuine ones (paid, failed,
\* with a further signed field, without data), and ones that are not: the
\* data or a further field changed after signing, another signer, a sign that
\* is no signature, no base64, base64 written without its padding or with
\* white space in it, or missing.
Notifications ==
  { Signed(WithData(3), FlashPayPrivateKey),
    Signed(WithData(4), FlashPayPrivateKey),
    Signed(ObjSet(WithData(3), K_nonce, VStr(S_x)), FlashPayPrivateKey),
    Signed(Envelope(S_A1, S_Time2), FlashPayPrivateKey),
    SignedAs(WithData(3), WithData(4), FlashPayPrivateKey),
    SignedAs(ObjSet(WithData(3), K_nonce, VStr(S_x)), WithData(3), FlashPayPrivateKey),
    Signed(WithData(3), OtherPrivateKey),
    ObjSet(WithData(3), K_sign, VStr(<<"Q", "U", "J", "D">>)),
    ObjSet(WithData(3), K_sign, VStr(<<"!", "!">>)),
    ObjSet(WithData(3), K_sign, VStr(<<"Q", "U", "J">>)),
    ObjSet(WithData(3), K_sign, VStr(<<"Q", "U", " ", "J", "D", "\n">>)),
    WithData(3) }

\* The codes of the gateway's responses.
ResponseCodes == {0, 1}

\* A call on the client: its position, its arguments and its locals.
Op(kind, pc, data, notification, payload, str) ==
  [kind |-> kind, pc |-> pc, data |-> data, notification |-> notification,
   payload |-> payload, str |-> str, key |-> Thrown("none"), verified |-> "pending",
   result |-> <<>>, err |-> "none"]

\* The key handle kept after the first import and reused: no further import.
CountImport_Cached(n) == IF n = 0 THEN 1 ELSE n

\* One more call of importPrivateKey / importPublicKey.
CountImport(n) == n + 1

\* signType put into the payload when it is built, before the signing.
RequestPayload_WithSignType(appKey, time, data) ==
  ObjSet(IF data.t \in {"undef", "null"} THEN Envelope(appKey, time)
         ELSE ObjSet(Envelope(appKey, time), K_data, data),
         K_signType, VStr(S_RSA2))

\* makeRequest, lines 230-239: the payload that is signed.
RequestPayload(appKey, time, data) ==
  IF data.t \in {"undef", "null"} THEN Envelope(appKey, time)
  ELSE ObjSet(Envelope(appKey, time), K_data, data)

\* makeRequest, lines 242-243
AttachSignature(payload, signature) ==
  ObjSet(ObjSet(payload, K_sign, signature), K_signType, VStr(S_RSA2))

\* JSON.parse(JSON.stringify(payload)): the object the body carries; members
\* whose value is undefined are not written.
Body(payload) ==
  LET written(obj) == SelectSeq(obj, LAMBDA e : e.val.t # "undef")
      top == written(payload)
  IN  [i \in 1..Len(top) |->
         IF top[i].val.t = "obj" THEN Entry(top[i].key, VObj(written(top[i].val.o)))
         ELSE top[i]]

\* handleNotification, lines 412-415
PayloadToVerify(notification) ==
  ObjFrom(<<Entry(K_appKey, ObjGet(notification, K_appKey)),
            Entry(K_charset, ObjGet(notification, K_charset)),
            Entry(K_time, ObjGet(notification, K_time)),
            Entry(K_version, ObjGet(notification, K_version)),
            Entry(K_data, ObjGet(notification, K_data))>>)

\* a == b in place of a === b: a string that reads as the number is equal too.
StrictEqualsNumber_Loose(a, b) ==
  \/ (a.t = "num" /\ a.n = b)
  \/ (a.t = "str" /\ a.s = NumberToString(b))

\* a === b for a number b
StrictEqualsNumber(a, b) == a.t = "num" /\ a.n = b

\* handleNotification, lines 425-431
NotificationResult(data) ==
  ObjFrom(<<Entry(K_outTradeNo, ObjGet(data, K_outTradeNo)),
            Entry(K_tradeNo, ObjGet(data, K_tradeNo)),
            Entry(K_paymentAmount, ObjGet(data, K_paymentAmount)),
            Entry(<<"c", "u", "r", "r", "e", "n", "c", "y", "C", "o", "d", "e">>,
                  ObjGet(data, K_cur)),
            Entry(<<"s", "u", "c", "c", "e", "s", "s">>,
                  VBool(StrictEqualsNumber(ObjGet(data, K_tradeStatus), 3)))>>)

\* The properties data.<name> reads from: those of an object; a string, a
\* number or a boolean has none of the names handleNotification reads.
PropertiesOf(data) == IF data.t = "obj" THEN data.o ELSE <<>>

\* How a call ends: returning `result` or throwing `err`.
Returned(result) == [pc |-> "done", result |-> result, err |-> "none"]
Threw(err) == [pc |-> "failed", result |-> <<>>, err |-> err]

\* The verification's answer only reported in the result, nothing thrown.
NotificationOutcome_FlagOnly(isValid, data) ==
  IF data.t \in {"undef", "null"} THEN Threw("TypeError")
  ELSE Returned(NotificationResult(PropertiesOf(data)))

\* handleNotification, lines 418-431, given verifySignature's answer.
NotificationOutcome(isValid, data) ==
  IF ~isValid THEN Threw("Invalid notification signature")
  ELSE IF data.t \in {"undef", "null"} THEN Threw("TypeError")
  ELSE Returned(NotificationResult(PropertiesOf(data)))

\* makeRequest up to its first await, for a client with the given appKey: the
\* payload built and the string to sign computed by generateSignature.
RequestCalls ==
  [appKey \in {c.appKey : c \in ClientConfigs} |->
     {Op("request", "importKey", data, <<>>, RequestPayload(appKey, time, data),
         createDataForSignature(RequestPayload(appKey, time, data))) :
        data \in RequestDatas, time \in {S_Time1}}]

\* handleNotification up to its first await: the payload to verify built and
\* the string to verify computed by verifySignature.
NotificationCalls ==
  {Op("notification", "importKey", VUndef, notification, PayloadToVerify(notification),
      createDataForSignature(PayloadToVerify(notification))) :
     notification \in Notifications}

\* The calls of a bag with one `call` replaced by `next`: the call takes a step.
Step(calls, call, next) == (calls (-) SetToBag({call})) (+) SetToBag({next})

\* The calls of the given kind, counted.
CallCount(calls, kind) ==
  BagCardinality([call \in {c \in BagToSet(calls) : c.kind = kind} |-> calls[call]])

ClientIdle ==
  /\ config = [appKey |-> <<>>, merchantPrivateKey |-> <<>>, flashPayPublicKey |-> <<>>]
  /\ ops = EmptyBag
  /\ sent = {}
  /\ privImports = 0
  /\ pubImports = 0

\* new FlashPayClient(config)
ClientStart ==
  /\ config \in ClientConfigs
  /\ ops = EmptyBag
  /\ sent = {}
  /\ privImports = 0
  /\ pubImports = 0

\* makeRequest is called: the payload is built and generateSignature runs to
\* its first await, the import of the private key.
ReqStart ==
  /\ BagCardinality(ops) < MaxOps
  /\ \E call \in RequestCalls[config.appKey] : ops' = ops (+) SetToBag({call})
  /\ privImports' = CountImport(privImports)
  /\ UNCHANGED <<config, sent, pubImports, canonVars, keyVars, signVars>>

\* The import settles: generateSignature throws, or calls crypto.subtle.sign.
ReqKeyImported ==
  \E call \in BagToSet(ops) :
    /\ call.kind = "request"
    /\ call.pc = "importKey"
    /\ LET privateKey == importPrivateKey(getPrivateKeyPem(config.merchantPrivateKey))
       IN  ops' = Step(ops, call,
                       IF privateKey.ok THEN [call EXCEPT !.pc = "sign", !.key = privateKey]
                       ELSE [call EXCEPT !.pc = "failed", !.err = privateKey.err])
    /\ UNCHANGED <<config, sent, privImports, pubImports, canonVars, keyVars, signVars>>

\* The string to sign held in a field of the client, not in a local of the
\* call: the signature is made over the string of whichever call wrote last.
ReqSigned_SharedString ==
  \E call \in BagToSet(ops), other \in BagToSet(ops) :
    /\ call.kind = "request"
    /\ call.pc = "sign"
    /\ other.kind = "request"
    /\ LET signature == cryptoSign(call.key.bytes, TextEncode(other.str))
           payload == AttachSignature(call.payload, signature)
       IN  /\ ops' = Step(ops, call, [call EXCEPT !.pc = "fetch", !.payload = payload])
           /\ sent' = sent \cup {Body(payload)}
    /\ UNCHANGED <<config, privImports, pubImports, canonVars, keyVars, signVars>>

\* The signature is made: makeRequest attaches sign and signType and hands
\* the body to fetch.
ReqSigned ==
  \E call \in BagToSet(ops) :
    /\ call.kind = "request"
    /\ call.pc = "sign"
    /\ LET signature == cryptoSign(call.key.bytes, TextEncode(call.str))
           payload == AttachSignature(call.payload, signature)
       IN  /\ ops' = Step(ops, call, [call EXCEPT !.pc = "fetch", !.payload = payload])
           /\ sent' = sent \cup {Body(payload)}
    /\ UNCHANGED <<config, privImports, pubImports, canonVars, keyVars, signVars>>

\* The response arrives: makeRequest returns its data or throws on its code.
ReqResponded ==
  \E call \in BagToSet(ops), code \in ResponseCodes :
    /\ call.kind = "request"
    /\ call.pc = "fetch"
    /\ ops' = Step(ops, call,
                   IF code # 0
                   THEN [call EXCEPT !.pc = "failed", !.err = "FlashPay API error"]
                   ELSE [call EXCEPT !.pc = "done"])
    /\ UNCHANGED <<config, sent, privImports, pubImports, canonVars, keyVars, signVars>>

\* handleNotification is called: the payload to verify is built and
\* verifySignature runs to its first await, the import of the public key.
NotifStart ==
  /\ BagCardinality(ops) < MaxOps
  /\ \E call \in NotificationCalls : ops' = ops (+) SetToBag({call})
  /\ pubImports' = CountImport(pubImports)
  /\ UNCHANGED <<config, sent, privImports, canonVars, keyVars, signVars>>

\* The import settles: verifySignature throws (no key, or a sign atob cannot
\* decode), or calls crypto.subtle.verify.
NotifKeyImported ==
  \E call \in BagToSet(ops) :
    /\ call.kind = "notification"
    /\ call.pc = "importKey"
    /\ LET publicKey == importPublicKey(getPublicKeyPem(config.flashPayPublicKey))
           sigBytes == atobSignature(ObjGet(call.notification, K_sign))
       IN  ops' = Step(ops, call,
                       IF ~publicKey.ok THEN [call EXCEPT !.pc = "failed", !.err = publicKey.err]
                       ELSE IF ~sigBytes.ok
                       THEN [call EXCEPT !.pc = "failed", !.err = sigBytes.err]
                       ELSE [call EXCEPT !.pc = "verify", !.key = publicKey])
    /\ UNCHANGED <<config, sent, privImports, pubImports, canonVars, keyVars, signVars>>

\* The verification settles: handleNotification throws or returns its result.
NotifVerified ==
  \E call \in BagToSet(ops) :
    /\ call.kind = "notification"
    /\ call.pc = "verify"
    /\ LET isValid == cryptoVerify(call.key.bytes, ObjGet(call.notification, K_sign),
                                   TextEncode(call.str))
           outcome == NotificationOutcome(isValid, ObjGet(call.notification, K_data))
       IN  ops' = Step(ops, call,
                       [call EXCEPT !.pc = outcome.pc, !.result = outcome.result,
                                    !.err = outcome.err,
                                    !.verified = IF isValid THEN "true" ELSE "false"])
    /\ UNCHANGED <<config, sent, privImports, pubImports, canonVars, keyVars, signVars>>

ClientNext ==
  \/ ReqStart
  \/ ReqKeyImported
  \/ ReqSigned
  \/ ReqResponded
  \/ NotifStart
  \/ NotifKeyImported
  \/ NotifVerified

(***************************************************************************)
(* Specifications                                                          *)
(***************************************************************************)
\* The client under concurrent requests and notification handlings.
Init == ClientStart /\ CanonIdle /\ KeyIdle /\ SignIdle

Next == ClientNext

Spec == Init /\ [][Next]_vars

\* createDataForSignature applied to bounded payloads.
CanonInit == CanonStart /\ KeyIdle /\ SignIdle /\ ClientIdle

SpecCanon == CanonInit /\ [][CanonNext]_vars

\* Key loading applied to the forms of a key.
KeyInit == KeyStart /\ CanonIdle /\ SignIdle /\ ClientIdle

SpecKeys == KeyInit /\ [][KeyNext]_vars

\* generateSignature and verifySignature applied to bounded payloads.
SignInit == SignStart /\ CanonIdle /\ KeyIdle /\ ClientIdle

SpecSign == SignInit /\ [][SignNext]_vars

(***************************************************************************)
(* One notification of any trade status (client.ts 411-432)                *)
(***************************************************************************)
\* The values data.tradeStatus arrives with: the statuses of the gateway, a
\* number that is no status, the status written as a string, none.
TradeStatusValues ==
  {VNum(0), VNum(2), VNum(3), VNum(4), VNum(5), VNum(99), VStr(<<"3">>), VUndef}

\* The notification whose data.tradeStatus is `value` (missing for undefined).
WithTradeStatus(value) ==
  LET data == NotificationData(3).o
  IN  ObjSet(Envelope(S_A1, S_Time2), K_data,
             VObj(IF value.t = "undef" THEN ObjDelete(data, K_tradeStatus)
                  ELSE ObjSet(data, K_tradeStatus, value)))

\* Each of them as the gateway signs it, and carrying the signature of the
\* paid one.
StatusNotifications ==
  {Signed(WithTradeStatus(value), FlashPayPrivateKey) : value \in TradeStatusValues}
    \cup {SignedAs(WithTradeStatus(value), WithTradeStatus(VNum(3)), FlashPayPrivateKey) :
            value \in TradeStatusValues}

\* handleNotification up to its first await, for each of them.
StatusCalls ==
  {Op("notification", "importKey", VUndef, notification, PayloadToVerify(notification),
      createDataForSignature(PayloadToVerify(notification))) :
     notification \in StatusNotifications}

\* handleNotification is called, once, on a client that is doing nothing else.
StatusStart ==
  /\ ops = EmptyBag
  /\ \E call \in StatusCalls : ops' = ops (+) SetToBag({call})
  /\ pubImports' = CountImport(pubImports)
  /\ UNCHANGED <<config, sent, privImports, canonVars, keyVars, signVars>>

StatusNext ==
  \/ StatusStart
  \/ NotifKeyImported
  \/ NotifVerified

StatusInit == ClientStart /\ CanonIdle /\ KeyIdle /\ SignIdle

SpecStatus == StatusInit /\ [][StatusNext]_vars

(***************************************************************************)
(* A signed notification and a second one carrying the same sign           *)
(***************************************************************************)
\* The fields of data that handleNotification reads (lines 423-429).
ResultFields == {K_outTradeNo, K_tradeNo, K_paymentAmount, K_cur, K_tradeStatus}

\* Notifications as the gateway signs them: a paid one, one whose tradeNo is
\* empty, one whose outTradeNo holds '&' and '='.
GenuineNotifications ==
  { Signed(WithData(3), FlashPayPrivateKey),
    Signed(ObjSet(WithData(3), K_data,
                  VObj(ObjSet(NotificationData(3).o, K_tradeNo, VStr(<<>>)))),
           FlashPayPrivateKey),
    Signed(ObjSet(WithData(4), K_data,
                  VObj(ObjSet(NotificationData(4).o, K_outTradeNo,
                              VStr(<<"o", "&", "x", "=", "1">>)))),
           FlashPayPrivateKey) }

\* The notifications somebody without the gateway's key can make of one of
\* them, its sign kept: the same again; data given as its JSON text; one field
\* of data emptied, set to null, set to another value, or taken out.
ReplayVariants(notification) ==
  LET data == ObjGet(notification, K_data).o
  IN  {notification,
       ObjSet(notification, K_data, VStr(JSONstringify(CleanedData(data))))}
        \cup {ObjSet(notification, K_data, VObj(ObjSet(data, key, value))) :
                key \in ResultFields, value \in {VStr(<<>>), VNull, VNum(4)}}
        \cup {ObjSet(notification, K_data, VObj(ObjDelete(data, key))) : key \in ResultFields}

\* handleNotification up to its first await, for the notification.
NotificationCall(notification) ==
  Op("notification", "importKey", VUndef, notification, PayloadToVerify(notification),
     createDataForSignature(PayloadToVerify(notification)))

\* handleNotification is called with a notification of the gateway.
ReplayGenuine ==
  /\ ops = EmptyBag
  /\ \E notification \in GenuineNotifications :
       ops' = ops (+) SetToBag({NotificationCall(notification)})
  /\ pubImports' = CountImport(pubImports)
  /\ UNCHANGED <<config, sent, privImports, canonVars, keyVars, signVars>>

\* handleNotification is called with a notification made of the first one.
ReplayVariant ==
  /\ BagCardinality(ops) = 1
  /\ \E call \in BagToSet(ops) :
       \E notification \in ReplayVariants(call.notification) :
         ops' = ops (+) SetToBag({NotificationCall(notification)})
  /\ pubImports' = CountImport(pubImports)
  /\ UNCHANGED <<config, sent, privImports, canonVars, keyVars, signVars>>

ReplayNext ==
  \/ ReplayGenuine
  \/ ReplayVariant
  \/ NotifKeyImported
  \/ NotifVerified

ReplayInit == ClientStart /\ CanonIdle /\ KeyIdle /\ SignIdle

SpecReplay == ReplayInit /\ [][ReplayNext]_vars

(***************************************************************************)
(* Claims                                                                  *)
(***************************************************************************)
\* The key handles the configuration's two key strings give.
ConfiguredPrivateKey == importPrivateKey(getPrivateKeyPem(config.merchantPrivateKey))
ConfiguredPublicKey == importPublicKey(getPublicKeyPem(config.flashPayPublicKey))

NotificationOps == {call \in BagToSet(ops) : call.kind = "notification"}
RequestOps == {call \in BagToSet(ops) : call.kind = "request"}

\* The notification's sign verifies, under the configured public key, against
\* the canonical string of the fields handleNotification hands to verifySignature.
SignVerifies(notification) ==
  /\ ConfiguredPublicKey.ok
  /\ cryptoVerify(ConfiguredPublicKey.bytes, ObjGet(notification, K_sign),
                  TextEncode(createDataForSignature(PayloadToVerify(notification))))

\* C1: handleNotification returns a result only for a notification whose sign
\* verifies; when the verification answers false the call fails with 'Invalid
\* notification signature', and no result exists before it has answered true.
C1_RejectsUnverified ==
  \A call \in NotificationOps :
    /\ call.pc = "done" => SignVerifies(call.notification)
    /\ call.result # <<>> => (call.pc = "done" /\ call.verified = "true")
    /\ call.verified = "false" =>
         (call.pc = "failed" /\ call.err = "Invalid notification signature")

C1_Witness ==
  \E call \in NotificationOps :
    /\ call.verified = "false"
    /\ call.pc = "failed"
    /\ call.err = "Invalid notification signature"
    /\ StrictEqualsNumber(ObjGet(ObjGet(call.notification, K_data).o, K_tradeStatus), 3)

\* C2: while a request is being signed its payload carries neither sign nor
\* signType and the string signed is its canonical string; every body sent
\* carries, as sign, the signature of the canonical string of its other fields
\* {appKey, charset, time, version, data?}, and signType RSA2.
C2_SignedBeforeAttached ==
  /\ \A call \in RequestOps :
       call.pc \in {"importKey", "sign"} =>
         /\ ~ObjHas(call.payload, K_sign)
         /\ ~ObjHas(call.payload, K_signType)
         /\ call.str = createDataForSignature(call.payload)
  /\ \A body \in sent :
       /\ {SignedFields(body)[i].key : i \in 1..Len(SignedFields(body))}
            \subseteq {K_appKey, K_charset, K_time, K_version, K_data}
       /\ ObjGet(body, K_signType) = VStr(S_RSA2)
       /\ ObjGet(body, K_sign) =
            cryptoSign(ConfiguredPrivateKey.bytes,
                       TextEncode(createDataForSignature(SignedFields(body))))

C2_Witness ==
  /\ \E body \in sent : IsDataObject(body) /\ ObjGet(body, K_sign).t = "sig"
  /\ \E body \in sent : ~ObjHas(body, K_data) /\ ObjGet(body, K_sign).t = "sig"

\* C3: every top-level field of a notification other than sign and signType
\* is, with its value, a field of the payload whose canonical string
\* handleNotification verifies.
C3_AllFieldsVerified ==
  \A call \in NotificationOps :
    \A i \in 1..Len(SignedFields(call.notification)) :
      LET field == SignedFields(call.notification)[i]
      IN  ObjHas(call.payload, field.key) /\ ObjGet(call.payload, field.key) = field.val

\* The payload of the specification's canonicalization scenario.
C4Payload ==
  ObjSet(Envelope(S_A1, S_Time1), K_data,
         VObj(ObjFrom(<<Entry(K_outTradeNo, VStr(S_o1)), Entry(K_paymentAmount, VNum(100)),
                        Entry(K_cur, VStr(S_THB))>>)))

\* The scenario's canonical string.
C4Expected ==
  <<"a", "p", "p", "K", "e", "y", "=", "A", "1", "&", "c", "h", "a", "r", "s", "e", "t", "=", "U", "T", "F", "-", "8", "&", "d", "a", "t", "a", "=", "{", "\"", "c", "u", "r", "\"", ":", "\"", "T", "H", "B", "\"", ",", "\"", "o", "u", "t", "T", "r", "a", "d", "e", "N", "o", "\"", ":", "\"", "o", "1", "\"", ",", "\"", "p", "a", "y", "m", "e", "n", "t", "A", "m", "o", "u", "n", "t", "\"", ":", "1", "0", "0", "}", "&", "t", "i", "m", "e", "=", "2", "0", "2", "4", "-", "0", "1", "-", "1", "5", " ", "1", "0", ":", "0", "0", ":", "0", "0", "&", "v", "e", "r", "s", "i", "o", "n", "=", "1", ".", "0">>

\* The least string of a non-empty set, by code units.
MinStr(S) == CHOOSE a \in S : \A b \in S \ {a} : StrLess(a, b)

\* The strings of a set in ascending order.
RECURSIVE Ascending(_)
Ascending(S) == IF S = {} THEN <<>> ELSE <<MinStr(S)>> \o Ascending(S \ {MinStr(S)})

\* The text a top-level entry contributes: data as the compact JSON text of
\* its cleaned entries, any other value as its string form.
PairText(payload, key) ==
  key \o <<"=">> \o
    (IF key = K_data /\ IsDataObject(payload)
     THEN JSONstringify(CleanedData(ObjGet(payload, K_data).o))
     ELSE ToStr(ObjGet(payload, key)))

\* C4: createDataForSignature of the scenario payload is exactly the scenario
\* string, and for every payload the result is the '&'-join of the key=value
\* pairs over the top-level keys in ascending order, data being replaced by its
\* compact JSON text.
C4_ScenarioAndJoin ==
  cPhase = "done" =>
    /\ (cPayload = C4Payload => cStr = C4Expected)
    /\ LET keys == Ascending({cOther[i].key : i \in 1..Len(cOther)})
       IN  cOtherStr = Join([i \in 1..Len(keys) |-> PairText(cOther, keys[i])], <<"&">>)

C4_Witness == cPhase = "done" /\ cPayload = C4Payload /\ cStr = C4Expected

\* C5: two payloads holding the same top-level entries and the same data
\* entries, inserted in any order at either level, have the same canonical
\* string.
C5_OrderIndependent ==
  (cPhase = "done" /\ cRel \in {"reorderedTop", "reorderedData", "reorderedBoth"})
    => cOtherStr = cStr

C5_Witness ==
  /\ cPhase = "done"
  /\ cRel = "reorderedBoth"
  /\ ObjectKeys(cOther) # ObjectKeys(cPayload)
  /\ ObjectKeys(ObjGet(cOther, K_data).o) # ObjectKeys(ObjGet(cPayload, K_data).o)
  /\ cOtherStr = cStr

\* C6: removing a data entry whose value is null, undefined or '' leaves the
\* canonical string unchanged; an entry with any other value (0 and false
\* included) is kept, so removing it changes the string.
C6_EmptyDropped ==
  cPhase = "done" =>
    /\ (cRel = "droppedEmpty" => cOtherStr = cStr)
    /\ (cRel = "droppedKept" => cOtherStr # cStr)

C6_Witness ==
  /\ cPhase = "done"
  /\ cRel = "droppedEmpty"
  /\ Len(ObjGet(cOther, K_data).o) < Len(ObjGet(cPayload, K_data).o)
  /\ \E i \in 1..Len(ObjGet(cPayload, K_data).o) :
       ObjGet(cPayload, K_data).o[i].val \in {VNum(0), VBool(FALSE)}
  /\ cOtherStr = cStr

\* The two configured keys decode to the two halves of one key pair.
MatchingKeyPair(keys) ==
  LET priv == importPrivateKey(getPrivateKeyPem(keys.merchantPrivateKey))
      pub == importPublicKey(getPublicKeyPem(keys.flashPayPublicKey))
  IN  priv.ok /\ pub.ok /\ PublicKeyOf(priv.bytes) = pub.bytes

\* C7: with a matching private/public key pair, the signature
\* generateSignature makes for a payload P is accepted by verifySignature for
\* the same P.
C7_RoundTrip ==
  (sPhase = "verified" /\ MatchingKeyPair(sConfig)) => sVerified = OkBool(TRUE)

C7_Witness ==
  /\ sPhase = "verified"
  /\ MatchingKeyPair(sConfig)
  /\ IsDataObject(sPayload)
  /\ \E i \in 1..Len(ObjGet(sPayload, K_data).o) : ~IsKeptValue(ObjGet(sPayload, K_data).o[i].val)
  /\ sVerified = OkBool(TRUE)

\* The position at which the other string differs from the canonical string.
MutatedAt == CHOOSE i \in 1..Len(sStr) : sOtherStr[i] # sStr[i]

\* C8 as stated: verification against a string that differs from the
\* canonical string of P in a single character is false.
C8_AnyCharacterRejected ==
  sPhase = "verifiedOther" => sVerified = OkBool(FALSE)

\* C8 as amended: verification against a string that differs from the
\* canonical string of P in a single character is false, unless the character
\* replaced and its replacement are both among the lone surrogates and U+FFFD
\* (which TextEncoder encodes to the same three bytes).
C8_EncodedDifferenceRejected ==
  (sPhase = "verifiedOther"
     /\ ~({sStr[MutatedAt], sOtherStr[MutatedAt]} \subseteq {LoneSurrogate, ReplacementChar}))
    => sVerified = OkBool(FALSE)

C8_Witness ==
  /\ sPhase = "verifiedOther"
  /\ MatchingKeyPair(sConfig)
  /\ sStr[MutatedAt] = " "
  /\ sOtherStr[MutatedAt] = "&"
  /\ sVerified = OkBool(FALSE)

\* C9: the bytes decoded from the configured key, whatever form of the raw key
\* it is, are the bytes decoded from the raw key wrapped by the client.
C9_SameBytesForEveryForm ==
  kPhase \in {"decoded", "imported"} =>
    kKeyData = pemToArrayBuffer(IF kKind = "private" THEN getPrivateKeyPem(kRaw)
                                ELSE getPublicKeyPem(kRaw))

\* C10 as stated: over any sequence of calls the private key is imported at
\* most once and the public key at most once.
C10_ImportedAtMostOnce == privImports <= 1 /\ pubImports <= 1

\* C10 as amended: no key handle is kept between calls; every request imports
\* the private key once and every notification handling imports the public key
\* once, each time from the key string of the configuration, so that every
\* call holds the same key handle.
C10_ImportedOncePerCall ==
  /\ privImports = CallCount(ops, "request")
  /\ pubImports = CallCount(ops, "notification")
  /\ \A call \in RequestOps : call.key.ok => call.key = ConfiguredPrivateKey
  /\ \A call \in NotificationOps : call.key.ok => call.key = ConfiguredPublicKey

C10_Witness ==
  /\ privImports = 2
  /\ CallCount(ops, "request") = 2
  /\ \A call \in RequestOps : call.pc = "done" /\ call.key = ConfiguredPrivateKey

(***************************************************************************)
(* Signatures that are not base64, the trade status, concurrent calls      *)
(***************************************************************************)
\* The text of a notification's sign as atob receives it; a signature made by
\* cryptoSign stands for the padded base64 text btoa gave it.
IsSignatureText(notification) == ObjGet(notification, K_sign).t = "sig"
SignText(notification) == ToStr(ObjGet(notification, K_sign))

\* Base64 as RFC 4648 section 4 writes it: digits of the alphabet only, padded
\* with "=" to a multiple of four characters.
WellFormedBase64(s) ==
  /\ Len(s) % 4 = 0
  /\ \E pad \in 0..2 :
       /\ pad <= Len(s)
       /\ \A i \in 1..Len(s) :
            IF i > Len(s) - pad THEN s[i] = "=" ELSE IsBase64Digit(s[i])

\* The sign is the signature of the gateway over the string verifySignature
\* builds for the notification.
SignMatches(notification) ==
  ObjGet(notification, K_sign) =
    cryptoSign(FlashPayPrivateKey,
               TextEncode(createDataForSignature(PayloadToVerify(notification))))

\* The call has left verifySignature.
PastVerification(call) == call.pc \in {"done", "failed"}

\* C11 as stated: a sign that is not well-formed base64 makes verifySignature
\* fail with an error, never answer false, and no NotificationResult is
\* returned; a well-formed sign that does not match makes it answer false.
C11_MalformedSignThrows ==
  \A call \in NotificationOps :
    (ConfiguredPublicKey.ok /\ PastVerification(call) /\ ~SignMatches(call.notification)) =>
      IF IsSignatureText(call.notification) \/ WellFormedBase64(SignText(call.notification))
      THEN call.verified = "false"
      ELSE call.verified = "pending" /\ call.pc = "failed" /\ call.result = <<>>

\* C11 as amended: a sign that atob cannot decode (after white space is
\* dropped and padding, if written, is taken off: a character outside the
\* alphabet, or one digit left over) makes verifySignature fail with atob's
\* error, with no answer and no NotificationResult; every sign atob decodes,
\* written with or without padding and white space, that does not match makes
\* verifySignature answer false, which handleNotification turns into its
\* "Invalid notification signature" error.
C11_UndecodableSignThrows ==
  \A call \in NotificationOps :
    (ConfiguredPublicKey.ok /\ PastVerification(call) /\ ~SignMatches(call.notification)) =>
      IF IsSignatureText(call.notification) \/ atob(SignText(call.notification)).ok
      THEN /\ call.verified = "false"
           /\ call.pc = "failed"
           /\ call.err = "Invalid notification signature"
      ELSE /\ call.verified = "pending"
           /\ call.pc = "failed"
           /\ call.err = "InvalidCharacterError"
           /\ call.result = <<>>

C11_Witness ==
  /\ \E call \in NotificationOps :
       /\ SignText(call.notification) = <<"!", "!">>
       /\ call.pc = "failed"
       /\ call.err = "InvalidCharacterError"
  /\ \E call \in NotificationOps :
       /\ SignText(call.notification) = <<"Q", "U", "J", "D">>
       /\ call.verified = "false"

\* The success flag of a returned NotificationResult.
SuccessOf(result) == ObjGet(result, <<"s", "u", "c", "c", "e", "s", "s">>)
TradeStatusOf(notification) == ObjGet(ObjGet(notification, K_data).o, K_tradeStatus)

\* C12: a notification that passes verification gets a NotificationResult
\* whose success flag is true if its data.tradeStatus is the number 3 and
\* false for every other value; it gets nothing else.
C12_SuccessIffPaid ==
  \A call \in NotificationOps :
    call.verified = "true" =>
      /\ call.pc = "done"
      /\ call.err = "none"
      /\ SuccessOf(call.result) \in {VBool(TRUE), VBool(FALSE)}
      /\ SuccessOf(call.result) = VBool(TRUE) <=> TradeStatusOf(call.notification) = VNum(3)

C12_Witness ==
  \E call \in NotificationOps :
    /\ call.verified = "true"
    /\ TradeStatusOf(call.notification) = VStr(<<"3">>)
    /\ SuccessOf(call.result) = VBool(FALSE)

\* The payload makeRequest builds for the call's own data, and that payload
\* with the signature of its own canonical string.
OwnPayload(call) == RequestPayload(config.appKey, S_Time1, call.data)
OwnSigned(call) ==
  AttachSignature(OwnPayload(call),
                  cryptoSign(ConfiguredPrivateKey.bytes,
                             TextEncode(createDataForSignature(OwnPayload(call)))))

\* How handleNotification ends for the notification when nothing else runs:
\* a function of the notification and the configuration alone.
HandledAlone(notification) ==
  LET isValid == verifySignature(PayloadToVerify(notification),
                                 ObjGet(notification, K_sign), config.flashPayPublicKey)
  IN  IF ~isValid.ok THEN Threw(isValid.err)
      ELSE NotificationOutcome(isValid.val, ObjGet(notification, K_data))

\* Every call under way or ended is as it would be had it run alone.
EachCallItsOwn ==
  /\ \A call \in RequestOps :
       (call.pc \in {"fetch", "done"} \/ call.err = "FlashPay API error") =>
         /\ call.payload = OwnSigned(call)
         /\ Body(OwnSigned(call)) \in sent
  /\ \A call \in NotificationOps :
       PastVerification(call) =>
         [pc |-> call.pc, result |-> call.result, err |-> call.err]
           = HandledAlone(call.notification)

\* C13: under every interleaving of requests and notification handlings at
\* their awaits, each request is sent with the signature of its own payload's
\* canonical string, each notification ends as its own fields and sign
\* decide, and the configuration with its keys is never changed.
C13_NoInterference == [](EachCallItsOwn) /\ [][config' = config]_vars

C13_Witness ==
  \E first \in RequestOps, second \in RequestOps :
    /\ first.data # second.data
    /\ first.pc = "fetch"
    /\ second.pc = "fetch"
    /\ ObjGet(first.payload, K_sign) # ObjGet(second.payload, K_sign)
    /\ EachCallItsOwn

\* The compact JSON text of the kept entries of `data`, its members written
\* in ascending order of their keys by code units.
AscendingJsonText(data) ==
  LET keys == Ascending({data[i].key : i \in {j \in 1..Len(data) : data[j].val \notin EmptyValues}})
  IN  <<"{">> \o Join([i \in 1..Len(keys) |->
                         JsonQuote(keys[i]) \o <<":">> \o JsonScalar(ObjGet(data, keys[i]))],
                      <<",">>) \o <<"}">>

\* C14: the JSON text createDataForSignature puts in place of data has its
\* members in ascending lexicographic order of their keys, whatever the keys
\* are, keys written in decimal digits such as "10" and "9" included.
C14_DataKeysAscending ==
  (cPhase = "done" /\ IsDataObject(cPayload)) =>
    Includes(cStr, <<"&">> \o K_data \o <<"=">>
                     \o AscendingJsonText(ObjGet(cPayload, K_data).o) \o <<"&">>)

\* The call was given no data: makeRequest without its second argument,
\* handleNotification with a notification that has no data field.
CarriesNoData(call) ==
  IF call.kind = "request" THEN call.data.t = "undef"
  ELSE ~ObjHas(call.notification, K_data)

\* The join of the appKey, charset, time and version pairs of a payload.
EnvelopePairs(payload) ==
  Join([i \in 1..4 |->
          LET key == <<K_appKey, K_charset, K_time, K_version>>[i]
          IN  key \o <<"=">> \o ToStr(ObjGet(payload, key))],
       <<"&">>)

\* C15: for a call that was given no data, the canonical string signed or
\* verified has no pair for data: it is the join of the appKey, charset, time
\* and version pairs.
C15_NoDataNoPair ==
  \A call \in BagToSet(ops) :
    CarriesNoData(call) => call.str = EnvelopePairs(call.payload)

\* C16: two notifications that handleNotification accepts with the same sign
\* give the same NotificationResult.
C16_OneSignOneResult ==
  \A first \in NotificationOps, second \in NotificationOps :
    (/\ first.pc = "done"
     /\ second.pc = "done"
     /\ ObjGet(first.notification, K_sign) = ObjGet(second.notification, K_sign))
      => first.result = second.result

\* The keys of an object, as a set.
KeySet(obj) == {obj[i].key : i \in 1..Len(obj)}

\* The keys of the data entries the signed string covers: those whose value
\* is not null, undefined or ''.
SignedDataKeys(data) == {data[i].key : i \in {j \in 1..Len(data) : data[j].val \notin EmptyValues}}

\* C17: the data entries a request's body carries are the data entries its
\* signature covers: an entry left out of the signed string (null, undefined
\* or '') is not in the body.
C17_BodyDataIsSignedData ==
  \A call \in RequestOps :
    ((call.pc \in {"fetch", "done"} \/ call.err = "FlashPay API error")
       /\ call.data.t = "obj") =>
      /\ Body(call.payload) \in sent
      /\ KeySet(ObjGet(Body(call.payload), K_data).o) = SignedDataKeys(call.data.o)
====
